---- MODULE Spec2Model ----
(***************************************************************************)
(* Dialog orchestration of the multi-channel support backend:              *)
(* DialogsService (find-or-create, process_incoming_message, lock, unlock, *)
(* close, switch_to_auto, add_message), the AIService answer policy and    *)
(* the sender registry.  Every request runs in its own database session;   *)
(* the steps of one request are separated at its awaits, so that requests  *)
(* interleave between a SELECT and the following COMMIT.                   *)
(***************************************************************************)
EXTENDS Integers, Sequences, FiniteSets, TLC

\* ---------------------------------------------------------------- bounds
MaxDialogs == 2
MaxMessages == 2
MaxOps == 4
MaxRequests == 3

\* ------------------------------------------------------------- constants
None == -1
CONFIDENCE_THRESHOLD == 35
MIN_SIMILARITY == 30
TOP_K == 5
TOKEN_REFRESH_MARGIN_SECONDS == 30

Procs == {"r1", "r2"}
Admins == {1, 2}
Times == {1, 2}
ChatIds == {"c1"}
ChannelTypes == {"telegram"}

AUTO == "auto"
WAIT_OPERATOR == "wait_operator"
WAIT_USER == "wait_user"

USER == "user"
BOT == "bot"
OPERATOR == "operator"

NoText == "<None>"
UserText == "Hi"
GeneratedText == "generated"
OperatorText == "operator text"
SystemText == "system hand-off"

\* The registry filled at import time: channel type -> sender class.
_sender_registry ==
  [telegram |-> "TelegramSender", avito |-> "AvitoSender", webchat |-> "WebchatSender"]

get_sender(channel_type) == _sender_registry[channel_type]

VARIABLES dialogs, messages, recent, sends, req, started, sequential, oplog,
          ai_in, ai_out, snd, hook, ws, registry, sock, cast, crm, norm

\* The dialog store and the requests working on it.
dialogvars == <<dialogs, messages, recent, sends, req, started, sequential, oplog>>

\* One call of AIService.generate_answer looked at on its own.
aivars == <<ai_in, ai_out>>

\* One call of a channel sender's send_text looked at on its own.
sendvars == <<snd>>

\* One webhook request looked at on its own, and the connected consoles
\* and webchat widgets its events go to.
hookvars == <<hook, ws>>

\* The connection registries of the WebSocketManager, the sockets and one
\* broadcast in progress looked at on their own.
castvars == <<registry, sock, cast>>

\* the CRM side-channel task started by process_incoming_message
syncvars == <<crm>>

\* one webhook body going through a channel normalizer
normvars == <<norm>>

vars == <<dialogvars, aivars, sendvars, hookvars, castvars, syncvars, normvars>>

\* ----------------------------------------------------------------- rows
NoDialog ==
  [id |-> 0, channel_type |-> "none", external_chat_id |-> "none",
   status |-> AUTO, closed |-> FALSE, is_locked |-> FALSE,
   assigned_admin_id |-> None, locked_until |-> None,
   unread_messages_count |-> 0]

\* Dialog(...) as constructed by get_or_create_dialog; the column defaults
\* of the model fill the remaining fields.
NewDialog(id, channel_type, external_chat_id) ==
  [id |-> id, channel_type |-> channel_type, external_chat_id |-> external_chat_id,
   status |-> AUTO, closed |-> FALSE, is_locked |-> FALSE,
   assigned_admin_id |-> None, locked_until |-> None,
   unread_messages_count |-> 0]

DialogMessage(dialog_id, sender, text, system) ==
  [dialog_id |-> dialog_id, sender |-> sender, text |-> text, system |-> system]

\* The unit of work writes only the attributes whose value differs from
\* the value loaded by the session; the other columns keep what is stored.
Flush(row, loaded, obj) ==
  [f \in DOMAIN row |-> IF obj[f] # loaded[f] THEN obj[f] ELSE row[f]]

\* updated_at is assigned on every dialog commit: the row becomes the most
\* recently updated one.
Touch(order, id) == <<id>> \o SelectSeq(order, LAMBDA x : x # id)

\* SELECT ... WHERE bot_id, channel_type, external_chat_id, closed IS FALSE
\* ORDER BY updated_at DESC, first row (0 when there is none).
OpenMatches(channel_type, external_chat_id) ==
  SelectSeq(recent, LAMBDA i : /\ dialogs[i].channel_type = channel_type
                               /\ dialogs[i].external_chat_id = external_chat_id
                               /\ ~dialogs[i].closed)

FindOpenDialog(channel_type, external_chat_id) ==
  IF OpenMatches(channel_type, external_chat_id) = <<>> THEN 0
  ELSE Head(OpenMatches(channel_type, external_chat_id))

\* dialog.messages[-1] of the messages stored for a dialog (0 when none).
DialogMessageIds(dialog_id) ==
  {i \in 1..Len(messages) : messages[i].dialog_id = dialog_id}

Max(S) == CHOOSE x \in S : \A y \in S : y <= x

LastMessageId(dialog_id) ==
  IF DialogMessageIds(dialog_id) = {} THEN 0 ELSE Max(DialogMessageIds(dialog_id))

\* --------------------------------------------------------- answer policy
\* RAGService.find_relevant_chunks: keep the scores at or above the floor,
\* sort descending, cut to top_k.
RECURSIVE SortDesc(_)
SortDesc(S) ==
  IF S = {} THEN <<>> ELSE <<Max(S)>> \o SortDesc(S \ {Max(S)})

find_relevant_chunks(scores) ==
  SubSeq(SortDesc({s \in scores : s >= MIN_SIMILARITY}), 1,
         IF Cardinality({s \in scores : s >= MIN_SIMILARITY}) < TOP_K
         THEN Cardinality({s \in scores : s >= MIN_SIMILARITY}) ELSE TOP_K)

\* llm_client.generate: "RuntimeError" is the error of an unconfigured
\* provider, "HTTPError" the httpx error of a failed provider call (raised by
\* raise_for_status or the transport), otherwise the text it returns
\* (possibly empty).
GenOutcomes == {"RuntimeError", "HTTPError", "", GeneratedText}

AIInputs ==
  [cfg : {"none", "instructions"}, embed_error : {FALSE}, scores : {{}}, gen : GenOutcomes]
  \cup [cfg : {"knowledge"}, embed_error : {TRUE}, scores : {{}}, gen : {"unused"}]
  \cup [cfg : {"knowledge"}, embed_error : {FALSE}, scores : {{}, {20}}, gen : {"unused"}]
  \cup [cfg : {"knowledge"}, embed_error : {FALSE}, scores : {{20, 32}, {32, 40}}, gen : GenOutcomes]

NoAI == [cfg |-> "unused", embed_error |-> FALSE, scores |-> {}, gen |-> "unused"]

AIAnswer(can_answer, answer, confidence) ==
  [raised |-> FALSE, can_answer |-> can_answer, answer |-> answer, confidence |-> confidence]

\* An exception that generate_answer does not catch leaves it.
Raised == [raised |-> TRUE, can_answer |-> FALSE, answer |-> NoText, confidence |-> 0]

Confidence(chunks) == IF chunks = <<>> THEN 0 ELSE Head(chunks)

\* bool(answer_text)
Truthy(text) == text \notin {NoText, ""}

\* AIService.generate_answer, the call of the generation capability without
\* a confidence gate (unconfigured bot, or instructions without knowledge)
UngatedAnswer(gen) ==
  IF gen = "RuntimeError" THEN AIAnswer(FALSE, NoText, 0)
  ELSE IF gen = "HTTPError" THEN Raised
  ELSE AIAnswer(Truthy(gen), IF Truthy(gen) THEN gen ELSE NoText, 0)

\* the knowledge-enabled branch with a strict comparison at the threshold
GatedAnswer_StrictThreshold(in) ==
  LET relevant_chunks == find_relevant_chunks(in.scores)
      confidence == Confidence(relevant_chunks)
      can_answer == Truthy(in.gen) /\ confidence > CONFIDENCE_THRESHOLD
  IN
  IF in.embed_error THEN AIAnswer(FALSE, NoText, 0)
  ELSE IF relevant_chunks = <<>> THEN AIAnswer(FALSE, NoText, 0)
  ELSE IF in.gen = "RuntimeError" THEN AIAnswer(FALSE, NoText, confidence)
  ELSE IF in.gen = "HTTPError" THEN Raised
  ELSE AIAnswer(can_answer, IF can_answer THEN in.gen ELSE NoText, confidence)

\* AIService.generate_answer, the knowledge-enabled branch
GatedAnswer(in) ==
  LET relevant_chunks == find_relevant_chunks(in.scores)
      confidence == Confidence(relevant_chunks)
      can_answer == Truthy(in.gen) /\ confidence >= CONFIDENCE_THRESHOLD
  IN
  IF in.embed_error THEN AIAnswer(FALSE, NoText, 0)
  ELSE IF relevant_chunks = <<>> THEN AIAnswer(FALSE, NoText, 0)
  ELSE IF in.gen = "RuntimeError" THEN AIAnswer(FALSE, NoText, confidence)
  ELSE IF in.gen = "HTTPError" THEN Raised
  ELSE AIAnswer(can_answer, IF can_answer THEN in.gen ELSE NoText, confidence)

\* AIService.generate_answer
generate_answer(in) ==
  LET knowledge_enabled == in.cfg = "knowledge"
      strict_guard_enabled == knowledge_enabled \/ in.cfg = "instructions"
  IN
  IF ~strict_guard_enabled THEN UngatedAnswer(in.gen)
  ELSE IF knowledge_enabled THEN GatedAnswer(in)
  ELSE UngatedAnswer(in.gen)

\* The inputs of one generate_answer call: the bot's configuration, whether
\* the embedding call fails, the similarity scores of the stored chunks and
\* the outcome of the generation call.
ScoreValues == {20, 30, 34, 35, 40, 50, 60}

GenInputs ==
  [cfg : {"none", "instructions", "knowledge"}, embed_error : BOOLEAN,
   scores : SUBSET ScoreValues, gen : GenOutcomes]

\* No result yet.
NoAnswerYet == [raised |-> FALSE, can_answer |-> FALSE, answer |-> "pending", confidence |-> 0]

AIIdle == ai_in = NoAI /\ ai_out = NoAnswerYet

\* AIService.answer -> generate_answer on one input
Generate ==
  /\ ai_out = NoAnswerYet
  /\ ai_out' = generate_answer(ai_in)
  /\ UNCHANGED <<ai_in, dialogvars, sendvars, hookvars, castvars, syncvars, normvars>>

\* ------------------------------------------------------- channel senders
Senders == {"AvitoSender", "TelegramSender", "WebchatSender"}

NoToken == "<no token>"
CachedToken == "cached token"
RefreshedToken == "refreshed token"
RetriedToken == "token of the refresh after 401/403"

\* The clock and the stored token_expires_at, in seconds.
NowValues == {0, 10}
ExpiryValues == {None, 30, 31, 40, 41}

\* What one provider call can end in: a response with a status code (for
\* Telegram with the "ok" flag of its body), an httpx.HTTPError from the
\* transport, or any other exception.
Outcomes ==
  [raised : {"none"}, status_code : {200, 401, 403, 500}, ok : BOOLEAN]
    \cup [raised : {"HTTPError", "Exception"}, status_code : {None}, ok : {FALSE}]

NoOutcome == [raised |-> "none", status_code |-> None, ok |-> FALSE]

is_success(response) ==
  response.raised = "none" /\ response.status_code \in 200..299

\* The channel row send_text loads, and the time of the call.
SendInputs ==
  [sender : Senders, channel : BOOLEAN, is_active : BOOLEAN,
   access_token : BOOLEAN, expires_at : ExpiryValues, now : NowValues,
   user_id : BOOLEAN, bot_token : BOOLEAN]

NoCall ==
  [sender |-> "none", channel |-> FALSE, is_active |-> FALSE,
   access_token |-> FALSE, expires_at |-> None, now |-> 0,
   user_id |-> FALSE, bot_token |-> FALSE]

\* A send_text call in progress: the token held, the last provider outcome,
\* what happened so far (token refreshes, send requests, their outcomes),
\* the diagnostics records written, how the call ended and what became of
\* the process_incoming_message that made it.
NewCall(in) ==
  [in |-> in, pc |-> "call", token |-> NoToken, response |-> NoOutcome,
   trace |-> <<>>, records |-> <<>>, result |-> "pending",
   orchestrator |-> "sending"]

SendIdle == snd = NewCall(NoCall)

RefreshEvent(token) == [event |-> "refresh", token |-> token, outcome |-> NoOutcome]
SendEvent(token) == [event |-> "send", token |-> token, outcome |-> NoOutcome]
OutcomeEvent(o) == [event |-> "outcome", token |-> NoToken, outcome |-> o]

log_integration(status, response) ==
  [direction |-> "out", operation |-> "send_message", status |-> status,
   http_status |-> response.status_code]

CachedTokenValid_NoMargin(in) ==
  in.access_token /\ in.expires_at # None /\ in.expires_at > in.now

CachedTokenValid(in) ==
  /\ in.access_token
  /\ in.expires_at # None
  /\ in.expires_at > in.now + TOKEN_REFRESH_MARGIN_SECONDS

\* refreshed is what refresh_access_token gives when it is called.
get_valid_access_token(in, refreshed) ==
  IF CachedTokenValid(in) THEN CachedToken ELSE refreshed

\* What the refresh made after a 401/403 can give: a new token, or nothing
\* when the refresh fails.
request_access_token == {NoToken, RetriedToken}

SendReturn(c) == [c EXCEPT !.pc = "done", !.result = "returned"]

\* AvitoSender.send_text up to the first send request.
Avito_Begin ==
  /\ snd.pc = "call" /\ snd.in.sender = "AvitoSender"
  /\ \E refreshed \in {NoToken, RefreshedToken} :
       LET token == get_valid_access_token(snd.in, refreshed)
           c == [snd EXCEPT !.token = token,
                            !.trace = IF CachedTokenValid(snd.in) THEN @
                                      ELSE Append(@, RefreshEvent(refreshed))]
       IN snd' = IF ~snd.in.channel THEN SendReturn(snd)
                 ELSE IF token = NoToken THEN SendReturn(c)
                 ELSE IF ~snd.in.user_id THEN SendReturn(c)
                 ELSE [c EXCEPT !.pc = "send"]
  /\ UNCHANGED <<dialogvars, aivars, hookvars, castvars, syncvars, normvars>>

\* The first send request and its outcome.
Avito_Send ==
  /\ snd.pc = "send" /\ snd.in.sender = "AvitoSender"
  /\ \E o \in Outcomes :
       snd' = [snd EXCEPT
                 !.trace = @ \o <<SendEvent(snd.token), OutcomeEvent(o)>>,
                 !.response = o,
                 !.pc = IF o.raised # "none" THEN "except"
                        ELSE IF o.status_code \in {401, 403} THEN "retry"
                        ELSE "record"]
  /\ UNCHANGED <<dialogvars, aivars, hookvars, castvars, syncvars, normvars>>

\* After a 401 or 403: a refresh, and a second send request if the refresh
\* gave a token.
Avito_Retry ==
  /\ snd.pc = "retry"
  /\ \E refreshed_token \in request_access_token :
       IF refreshed_token # NoToken
       THEN \E o \in Outcomes :
              snd' = [snd EXCEPT
                        !.trace = @ \o <<RefreshEvent(refreshed_token),
                                         SendEvent(refreshed_token),
                                         OutcomeEvent(o)>>,
                        !.token = refreshed_token,
                        !.response = o,
                        !.pc = IF o.raised # "none" THEN "except" ELSE "record"]
       ELSE snd' = [snd EXCEPT
                      !.trace = Append(@, RefreshEvent(NoToken)),
                      !.pc = "record"]
  /\ UNCHANGED <<dialogvars, aivars, hookvars, castvars, syncvars, normvars>>

\* The response is logged once and send_text returns.
Avito_Record ==
  /\ snd.pc = "record" /\ snd.in.sender = "AvitoSender"
  /\ snd' = SendReturn(
       [snd EXCEPT !.records =
          Append(@, log_integration(IF is_success(snd.response) THEN "ok" ELSE "fail",
                                    snd.response))])
  /\ UNCHANGED <<dialogvars, aivars, hookvars, castvars, syncvars, normvars>>

\* Both except clauses log the failure and re-raise.
Avito_Except ==
  /\ snd.pc = "except" /\ snd.in.sender = "AvitoSender"
  /\ snd' = [snd EXCEPT !.records = Append(@, log_integration("fail", snd.response)),
                        !.pc = "done", !.result = "raised"]
  /\ UNCHANGED <<dialogvars, aivars, hookvars, castvars, syncvars, normvars>>

\* TelegramSender.send_text up to the send request.
Telegram_Begin ==
  /\ snd.pc = "call" /\ snd.in.sender = "TelegramSender"
  /\ snd' = IF ~snd.in.channel THEN SendReturn(snd)
            ELSE IF ~snd.in.bot_token THEN SendReturn(snd)
            ELSE [snd EXCEPT !.pc = "send", !.token = "bot token"]
  /\ UNCHANGED <<dialogvars, aivars, hookvars, castvars, syncvars, normvars>>

\* The send request; every outcome is logged once and none is raised.
Telegram_Send ==
  /\ snd.pc = "send" /\ snd.in.sender = "TelegramSender"
  /\ \E o \in Outcomes :
       LET status == IF o.raised = "none" /\ is_success(o) /\ o.ok
                     THEN "ok" ELSE "fail"
       IN snd' = SendReturn(
            [snd EXCEPT
               !.trace = @ \o <<SendEvent(snd.token), OutcomeEvent(o)>>,
               !.response = o,
               !.records = Append(@, log_integration(status, o))])
  /\ UNCHANGED <<dialogvars, aivars, hookvars, castvars, syncvars, normvars>>

\* WebchatSender.send_text: the event goes to the webchat session's
\* sockets; a failure is logged to the application log only.
Webchat_Send ==
  /\ snd.pc = "call" /\ snd.in.sender = "WebchatSender"
  /\ \E o \in {x \in Outcomes : x.status_code \in {200, None} /\ x.raised # "HTTPError"
                                  /\ (x.raised = "none" => x.ok)} :
       snd' = IF ~snd.in.channel THEN SendReturn(snd)
              ELSE IF ~snd.in.is_active THEN SendReturn(snd)
              ELSE SendReturn(
                     [snd EXCEPT
                        !.trace = @ \o <<SendEvent(NoToken), OutcomeEvent(o)>>,
                        !.response = o])
  /\ UNCHANGED <<dialogvars, aivars, hookvars, castvars, syncvars, normvars>>

\* process_incoming_message awaits send_text without a try: it goes on to
\* its return when send_text returns and ends with the exception otherwise.
PI_AfterSend ==
  /\ snd.pc = "done" /\ snd.orchestrator = "sending"
  /\ snd' = [snd EXCEPT !.orchestrator =
               IF snd.result = "raised" THEN "aborted" ELSE "returned"]
  /\ UNCHANGED <<dialogvars, aivars, hookvars, castvars, syncvars, normvars>>


\* -------------------------------------------------------------- requests
Idle ==
  [pc |-> "idle", op |-> "none", admin_id |-> None,
   channel_type |-> "none", external_chat_id |-> "none",
   dialog |-> NoDialog, loaded |-> NoDialog, dialog_created |-> FALSE,
   sender |-> "none", text |-> NoText,
   user_message |-> 0, bot_message |-> 0, sent |-> 0,
   statuses |-> <<>>, ai |-> NoAI, ai_called |-> FALSE,
   locked_at_guard |-> FALSE, outcome |-> "none"]

\* A finished operator call as the client sees it: the dialog it was given
\* and the dialog or error it got back.
LogEntry(r) ==
  [op |-> r.op, admin_id |-> r.admin_id, outcome |-> r.outcome,
   before |-> r.loaded, dialog |-> r.dialog]

OperatorOps == {"lock", "unlock", "close", "operator_message", "switch_to_auto"}

\* The request moves on; the sequential client notes each operator call
\* that returns.
Set(p, r) ==
  /\ req' = [req EXCEPT ![p] = r]
  /\ oplog' = IF sequential /\ r.pc = "done" /\ r.op \in OperatorOps
              THEN Append(oplog, LogEntry(r)) ELSE oplog
  /\ UNCHANGED <<sequential, aivars, sendvars, hookvars, castvars, syncvars, normvars>>

\* A new request is received: concurrent clients send at most MaxRequests
\* requests, the sequential client makes at most MaxOps operator calls, one
\* request at a time.  The request slots are interchangeable: a request
\* takes slot r2 only while slot r1 is busy.
Admit(p) ==
  IF sequential
  THEN p = "r1" /\ Len(oplog) < MaxOps /\ UNCHANGED started
  ELSE /\ started < MaxRequests /\ started' = started + 1
       /\ p = "r2" => req["r1"].pc # "idle"

Finish(r, outcome) == [r EXCEPT !.pc = "done", !.outcome = outcome]

\* ------------------------------------------- lock / assignment decisions
\* lock_dialog, the two guards that raise DialogLockError
LockConflict(dialog, admin_id) ==
  \/ dialog.assigned_admin_id \notin {None, admin_id}
  \/ dialog.is_locked /\ dialog.assigned_admin_id # admin_id

\* lock_dialog that also resets the status
LockAssign_ResetsStatus(dialog, admin_id) ==
  [dialog EXCEPT !.is_locked = TRUE, !.assigned_admin_id = admin_id,
                 !.locked_until = None, !.status = AUTO]

\* lock_dialog, the assignments after the guards
LockAssign(dialog, admin_id) ==
  [dialog EXCEPT !.is_locked = TRUE, !.assigned_admin_id = admin_id,
                 !.locked_until = None]

\* unlock_dialog / switch_to_auto without the assignee guard
UnlockConflict_Missing(dialog, admin_id) == FALSE

\* unlock_dialog, the guard that raises DialogLockError
UnlockConflict(dialog, admin_id) ==
  dialog.assigned_admin_id \notin {None, admin_id}

\* unlock_dialog that clears the assignee but leaves the lock flag set
UnlockAssign_KeepsLockFlag(dialog) ==
  [dialog EXCEPT !.locked_until = None, !.assigned_admin_id = None]

\* unlock_dialog that clears the lock flag but leaves the assignee
UnlockAssign_KeepsAssignee(dialog) ==
  [dialog EXCEPT !.is_locked = FALSE, !.locked_until = None]

\* unlock_dialog, the assignments after the guard
UnlockAssign(dialog) ==
  [dialog EXCEPT !.is_locked = FALSE, !.locked_until = None,
                 !.assigned_admin_id = None]

\* unlock_if_expired, the condition under which the lock is released
LockExpired(dialog, now) ==
  dialog.is_locked /\ dialog.locked_until # None /\ dialog.locked_until < now

\* unlock_if_expired, the identity it passes to unlock_dialog
ReleasingAdmin(dialog) ==
  IF dialog.assigned_admin_id # None THEN dialog.assigned_admin_id ELSE 0

\* process_incoming_message, the guard that returns before the pipeline
ActiveOperatorLock(dialog, now) ==
  /\ dialog.assigned_admin_id # None
  /\ dialog.locked_until # None
  /\ dialog.locked_until > now

\* process_incoming_message, the dialog update made with the user message
IncomingUpdate(dialog) ==
  [dialog EXCEPT !.closed = FALSE, !.status = WAIT_OPERATOR,
                 !.unread_messages_count = @ + 1]

\* the answer branch without the status assignment
AnswerUpdate_KeepsStatus(dialog) ==
  [dialog EXCEPT !.unread_messages_count = 0]

\* process_incoming_message, the dialog update made with the bot answer
AnswerUpdate(dialog) ==
  [dialog EXCEPT !.status = WAIT_USER, !.unread_messages_count = 0]

\* process_incoming_message / switch_to_auto, the test that takes the
\* hand-off branch
IsNoAnswer(answer) == answer.answer = NoText \/ answer.answer = ""

\* process_incoming_message / switch_to_auto, the test that takes the
\* answer branch
IsAnswer(answer) == answer.can_answer /\ Truthy(answer.answer)

\* switch_to_auto, the assignments before its first commit
SwitchAssign(dialog) ==
  [dialog EXCEPT !.status = AUTO, !.is_locked = FALSE, !.locked_until = None,
                 !.assigned_admin_id = None]

\* add_message, the dialog update for the sender
AddMessageUpdate(dialog, sender) ==
  IF sender = USER
  THEN [dialog EXCEPT !.closed = FALSE, !.status = WAIT_OPERATOR,
                      !.unread_messages_count = @ + 1]
  ELSE [dialog EXCEPT !.closed = FALSE, !.status = WAIT_USER,
                      !.unread_messages_count = 0]

\* ------------------------------------------------ process_incoming_message
\* get_or_create_dialog: the SELECT of the open dialog
PI_Find(p, channel_type, external_chat_id) ==
  /\ req[p].pc = "idle"
  /\ Admit(p)
  /\ LET d == FindOpenDialog(channel_type, external_chat_id) IN
       Set(p, [Idle EXCEPT !.pc = IF d = 0 THEN "pi_insert" ELSE "pi_found",
                           !.op = "incoming",
                           !.channel_type = channel_type,
                           !.external_chat_id = external_chat_id,
                           !.text = UserText,
                           !.dialog = IF d = 0 THEN NoDialog ELSE dialogs[d]])
  /\ UNCHANGED <<dialogs, messages, recent, sends>>

\* get_or_create_dialog: INSERT of a new dialog, commit, refresh
PI_Insert(p) ==
  /\ UNCHANGED started
  /\ req[p].pc = "pi_insert"
  /\ Len(dialogs) < MaxDialogs
  /\ LET id == Len(dialogs) + 1
         row == NewDialog(id, req[p].channel_type, req[p].external_chat_id) IN
       /\ dialogs' = Append(dialogs, row)
       /\ recent' = Touch(recent, id)
       /\ Set(p, [req[p] EXCEPT !.pc = "pi_found", !.dialog = row,
                                !.dialog_created = TRUE,
                                !.statuses = <<row.status>>])
  /\ UNCHANGED <<messages, sends>>

\* unlock_if_expired, the dialog update, the user message, commit, refresh,
\* the CRM task and the operator-lock guard
PI_UserCommit(p) ==
  /\ UNCHANGED started
  /\ req[p].pc = "pi_found"
  /\ Len(messages) < MaxMessages
  /\ \E t0 \in Times, now \in Times :
       /\ t0 <= now
       /\ LET loaded == req[p].dialog
              id == loaded.id
              expired == LockExpired(loaded, t0)
                         /\ ~UnlockConflict(loaded, ReleasingAdmin(loaded))
              row1 == IF expired THEN Flush(dialogs[id], loaded, UnlockAssign(loaded))
                      ELSE dialogs[id]
              loaded1 == IF expired THEN row1 ELSE loaded
              row2 == Flush(row1, loaded1, IncomingUpdate(loaded1))
              r == [req[p] EXCEPT !.dialog = row2,
                                  !.user_message = Len(messages) + 1,
                                  !.statuses = Append(@, row2.status),
                                  !.locked_at_guard = row2.is_locked]
          IN
          /\ dialogs' = [dialogs EXCEPT ![id] = row2]
          /\ messages' = Append(messages, DialogMessage(id, USER, req[p].text, FALSE))
          /\ recent' = Touch(recent, id)
          /\ IF ActiveOperatorLock(row2, now)
             THEN Set(p, Finish(r, "user_only"))
             ELSE Set(p, [r EXCEPT !.pc = "pi_answer"])
  /\ UNCHANGED sends

\* ai_service.answer and the branch taken on its result, commit, refresh
PI_Answer(p) ==
  /\ UNCHANGED started
  /\ req[p].pc = "pi_answer"
  /\ \E in \in AIInputs :
       LET answer == generate_answer(in)
           loaded == req[p].dialog
           id == loaded.id
           r == [req[p] EXCEPT !.ai = in, !.ai_called = TRUE]
       IN
       IF answer.raised THEN
         /\ Set(p, Finish(r, "raised"))
         /\ UNCHANGED <<dialogs, messages, recent>>
       ELSE IF IsNoAnswer(answer) THEN
         /\ Len(messages) < MaxMessages
         /\ dialogs' = [dialogs EXCEPT ![id] =
                          Flush(@, loaded, [loaded EXCEPT !.status = WAIT_OPERATOR])]
         /\ messages' = Append(messages, DialogMessage(id, BOT, SystemText, TRUE))
         /\ recent' = Touch(recent, id)
         /\ Set(p, Finish([r EXCEPT !.dialog = dialogs'[id],
                                    !.bot_message = Len(messages) + 1,
                                    !.statuses = Append(@, dialogs'[id].status)],
                          "system_handoff"))
       ELSE IF IsAnswer(answer) THEN
         /\ Len(messages) < MaxMessages
         /\ dialogs' = [dialogs EXCEPT ![id] = Flush(@, loaded, AnswerUpdate(loaded))]
         /\ messages' = Append(messages, DialogMessage(id, BOT, answer.answer, FALSE))
         /\ recent' = Touch(recent, id)
         /\ Set(p, [r EXCEPT !.pc = "pi_send",
                             !.dialog = dialogs'[id],
                             !.text = answer.answer,
                             !.bot_message = Len(messages) + 1,
                             !.statuses = Append(@, dialogs'[id].status)])
       ELSE
         /\ dialogs' = [dialogs EXCEPT ![id] =
                          Flush(@, loaded, [loaded EXCEPT !.status = WAIT_OPERATOR])]
         /\ recent' = Touch(recent, id)
         /\ Set(p, Finish([r EXCEPT !.dialog = dialogs'[id],
                                    !.statuses = Append(@, dialogs'[id].status)],
                          "declined"))
         /\ UNCHANGED messages
  /\ UNCHANGED sends

\* get_sender(channel_type)().send_text(...)
PI_Send(p) ==
  /\ UNCHANGED started
  /\ req[p].pc = "pi_send"
  /\ sends' = Append(sends, [sender |-> get_sender(req[p].channel_type),
                             external_chat_id |-> req[p].external_chat_id,
                             text |-> req[p].text])
  /\ Set(p, Finish([req[p] EXCEPT !.sent = @ + 1], "answered"))
  /\ UNCHANGED <<dialogs, messages, recent>>

\* The response is returned; the request slot serves the next request.
Return(p) ==
  /\ UNCHANGED started
  /\ req[p].pc = "done"
  /\ Set(p, Idle)
  /\ UNCHANGED <<dialogs, messages, recent, sends>>

\* ------------------------------------------------------ operator requests
\* service.get(dialog_id) at the start of an operator request, and the
\* closed checks the close and send-message endpoints make on the result
OpLoad(p, op, d, admin_id) ==
  /\ req[p].pc = "idle"
  /\ Admit(p)
  /\ d \in 1..Len(dialogs)
  /\ admin_id = None <=> op \in {"close", "operator_message"}
  /\ LET r == [Idle EXCEPT !.op = op, !.admin_id = admin_id, !.dialog = dialogs[d],
                           !.loaded = dialogs[d],
                           !.channel_type = dialogs[d].channel_type,
                           !.external_chat_id = dialogs[d].external_chat_id]
     IN
     IF op \in {"close", "operator_message"} /\ dialogs[d].closed
     THEN Set(p, Finish(r, "http_400"))
     ELSE IF op = "operator_message"
     THEN Set(p, [r EXCEPT !.pc = "am_find", !.sender = OPERATOR, !.text = OperatorText])
     ELSE Set(p, [r EXCEPT !.pc = "op_loaded"])
  /\ UNCHANGED <<dialogs, messages, recent, sends>>

\* lock_dialog
LockCommit(p) ==
  /\ UNCHANGED started
  /\ req[p].pc = "op_loaded" /\ req[p].op = "lock"
  /\ LET loaded == req[p].dialog
         id == loaded.id IN
     IF LockConflict(loaded, req[p].admin_id)
     THEN /\ Set(p, Finish(req[p], "DialogLockError"))
          /\ UNCHANGED <<dialogs, recent>>
     ELSE /\ dialogs' = [dialogs EXCEPT ![id] =
                           Flush(@, loaded, LockAssign(loaded, req[p].admin_id))]
          /\ recent' = Touch(recent, id)
          /\ Set(p, Finish([req[p] EXCEPT !.dialog = dialogs'[id]], "ok"))
  /\ UNCHANGED <<messages, sends>>

\* unlock_dialog
UnlockCommit(p) ==
  /\ UNCHANGED started
  /\ req[p].pc = "op_loaded" /\ req[p].op = "unlock"
  /\ LET loaded == req[p].dialog
         id == loaded.id IN
     IF UnlockConflict(loaded, req[p].admin_id)
     THEN /\ Set(p, Finish(req[p], "DialogLockError"))
          /\ UNCHANGED <<dialogs, recent>>
     ELSE /\ dialogs' = [dialogs EXCEPT ![id] = Flush(@, loaded, UnlockAssign(loaded))]
          /\ recent' = Touch(recent, id)
          /\ Set(p, Finish([req[p] EXCEPT !.dialog = dialogs'[id]], "ok"))
  /\ UNCHANGED <<messages, sends>>

\* close_dialog
CloseCommit(p) ==
  /\ UNCHANGED started
  /\ req[p].pc = "op_loaded" /\ req[p].op = "close"
  /\ LET loaded == req[p].dialog
         id == loaded.id IN
     /\ dialogs' = [dialogs EXCEPT ![id] = Flush(@, loaded, [loaded EXCEPT !.closed = TRUE])]
     /\ recent' = Touch(recent, id)
     /\ Set(p, Finish([req[p] EXCEPT !.dialog = dialogs'[id]], "ok"))
  /\ UNCHANGED <<messages, sends>>

\* switch_to_auto up to its first commit and the look at the last message
SwitchCommit(p) ==
  /\ UNCHANGED started
  /\ req[p].pc = "op_loaded" /\ req[p].op = "switch_to_auto"
  /\ LET loaded == req[p].dialog
         id == loaded.id
         last == LastMessageId(id) IN
     IF loaded.closed
     THEN /\ Set(p, Finish(req[p], "ValueError"))
          /\ UNCHANGED <<dialogs, recent>>
     ELSE IF UnlockConflict(loaded, req[p].admin_id)
     THEN /\ Set(p, Finish(req[p], "DialogLockError"))
          /\ UNCHANGED <<dialogs, recent>>
     ELSE /\ dialogs' = [dialogs EXCEPT ![id] = Flush(@, loaded, SwitchAssign(loaded))]
          /\ recent' = Touch(recent, id)
          /\ IF last # 0 /\ messages[last].sender = USER
             THEN Set(p, [req[p] EXCEPT !.pc = "sw_answer", !.dialog = dialogs'[id]])
             ELSE Set(p, Finish([req[p] EXCEPT !.dialog = dialogs'[id]], "ok"))
  /\ UNCHANGED <<messages, sends>>

\* switch_to_auto: ai_service.answer on the last user message and the
\* branch taken on its result
SwitchAnswer(p) ==
  /\ UNCHANGED started
  /\ req[p].pc = "sw_answer"
  /\ \E in \in AIInputs :
       LET answer == generate_answer(in)
           loaded == req[p].dialog
           id == loaded.id
           r == [req[p] EXCEPT !.ai = in, !.ai_called = TRUE]
       IN
       IF answer.raised THEN
         /\ Set(p, Finish(r, "raised"))
         /\ UNCHANGED <<dialogs, messages, recent>>
       ELSE IF IsNoAnswer(answer) THEN
         /\ Len(messages) < MaxMessages
         /\ dialogs' = [dialogs EXCEPT ![id] =
                          Flush(@, loaded, [loaded EXCEPT !.status = WAIT_OPERATOR])]
         /\ messages' = Append(messages, DialogMessage(id, BOT, SystemText, TRUE))
         /\ recent' = Touch(recent, id)
         /\ Set(p, Finish([r EXCEPT !.dialog = dialogs'[id],
                                    !.bot_message = Len(messages) + 1],
                          "system_handoff"))
       ELSE IF IsAnswer(answer) THEN
         /\ Set(p, [r EXCEPT !.pc = "am_find", !.sender = BOT, !.text = answer.answer])
         /\ UNCHANGED <<dialogs, messages, recent>>
       ELSE
         /\ Set(p, Finish(r, "ok"))
         /\ UNCHANGED <<dialogs, messages, recent>>
  /\ UNCHANGED sends

\* add_message: get_or_create_dialog, the SELECT of the open dialog
AM_Find(p) ==
  /\ UNCHANGED started
  /\ req[p].pc = "am_find"
  /\ LET d == FindOpenDialog(req[p].channel_type, req[p].external_chat_id) IN
       Set(p, [req[p] EXCEPT !.pc = IF d = 0 THEN "am_insert" ELSE "am_found",
                             !.dialog = IF d = 0 THEN NoDialog ELSE dialogs[d]])
  /\ UNCHANGED <<dialogs, messages, recent, sends>>

\* add_message: get_or_create_dialog, INSERT of a new dialog
AM_Insert(p) ==
  /\ UNCHANGED started
  /\ req[p].pc = "am_insert"
  /\ Len(dialogs) < MaxDialogs
  /\ LET id == Len(dialogs) + 1
         row == NewDialog(id, req[p].channel_type, req[p].external_chat_id) IN
       /\ dialogs' = Append(dialogs, row)
       /\ recent' = Touch(recent, id)
       /\ Set(p, [req[p] EXCEPT !.pc = "am_found", !.dialog = row,
                                !.dialog_created = TRUE])
  /\ UNCHANGED <<messages, sends>>

\* add_message: the dialog update, the message, commit, refresh
AM_Commit(p) ==
  /\ UNCHANGED started
  /\ req[p].pc = "am_found"
  /\ Len(messages) < MaxMessages
  /\ LET loaded == req[p].dialog
         id == loaded.id
         r == [req[p] EXCEPT !.bot_message = Len(messages) + 1] IN
       /\ dialogs' = [dialogs EXCEPT ![id] =
                        Flush(@, loaded, AddMessageUpdate(loaded, req[p].sender))]
       /\ messages' = Append(messages, DialogMessage(id, req[p].sender, req[p].text, FALSE))
       /\ recent' = Touch(recent, id)
       /\ IF req[p].op = "switch_to_auto"
          THEN Set(p, [r EXCEPT !.pc = "sw_finish", !.dialog = dialogs'[id]])
          ELSE Set(p, Finish([r EXCEPT !.dialog = dialogs'[id]], "created"))
  /\ UNCHANGED sends

\* switch_to_auto: the update of the dialog returned by add_message
SwitchFinish(p) ==
  /\ UNCHANGED started
  /\ req[p].pc = "sw_finish"
  /\ LET loaded == req[p].dialog
         id == loaded.id IN
       /\ dialogs' = [dialogs EXCEPT ![id] = Flush(@, loaded, SwitchAssign(loaded))]
       /\ recent' = Touch(recent, id)
       /\ Set(p, Finish([req[p] EXCEPT !.dialog = dialogs'[id]], "answered"))
  /\ UNCHANGED <<messages, sends>>

\* --------------------------------------------------- WebSocketManager
Sockets == {"w1", "w2", "w3"}

AdminKey(admin_id) == IF admin_id = 1 THEN "admin 1" ELSE "admin 2"

AdminKeys == {AdminKey(a) : a \in Admins}

WebchatKeys == {"webchat 1 c1", "webchat 1 c2"}

Keys == AdminKeys \cup WebchatKeys

\* One manager call: broadcast_to_admins with admin_ids (given = FALSE is
\* admin_ids = None) or broadcast_to_webchat with the key of a session.
Broadcasts ==
  [kind : {"admins"}, given : {FALSE}, admin_ids : {{}}, key : {"none"}]
    \cup [kind : {"admins"}, given : {TRUE}, admin_ids : (SUBSET Admins) \ {{}},
          key : {"none"}]
    \cup [kind : {"webchat"}, given : {FALSE}, admin_ids : {{}}, key : WebchatKeys]

NoBroadcast == [kind |-> "none", given |-> FALSE, admin_ids |-> {}, key |-> "none"]

\* A socket: its application_state, the key it registered under and how
\* often the event of the broadcast was written to it.
NewSocket == [state |-> "new", home |-> "none", received |-> 0]

TargetKeys_AllAdmins(call) ==
  IF call.kind = "webchat" THEN {call.key} ELSE AdminKeys

\* The registry keys a call iterates over.
TargetKeys(call) ==
  IF call.kind = "webchat" THEN {call.key}
  ELSE IF call.given THEN {AdminKey(a) : a \in call.admin_ids}
  ELSE AdminKeys

\* A broadcast: the keys still to visit, and for the key being visited the
\* set object the loop iterates (attached while it is the one in the
\* registry), its size when the iterator was made, the sockets visited, the
\* socket a write is suspended on and the sockets noted as disconnected.
\* stayed holds the target sockets registered and connected since the call
\* began, dead every socket the call noted as disconnected; interfered
\* records a register or unregister on the visited key.
NoCast ==
  [call |-> NoBroadcast, pc |-> "idle", todo |-> {}, cur |-> "none",
   obj |-> {}, attached |-> FALSE, used |-> 0, visited |-> {},
   writing |-> "none", disconnected |-> {}, dead |-> {}, raised |-> FALSE,
   stayed |-> {}, interfered |-> FALSE]

CastIdle ==
  /\ registry = [k \in Keys |-> {}]
  /\ sock = [w \in Sockets |-> NewSocket]
  /\ cast = NoCast

\* The event loop runs other handlers only while the broadcast is not
\* running or is suspended in a write.
Suspended == cast.pc \in {"idle", "write"}

Iterating(k) == cast.pc = "write" /\ cast.cur = k /\ cast.attached

\* register_admin / register_webchat: accept, then add to the key's set.
Register(w, k) ==
  /\ Suspended
  /\ sock[w].state = "new"
  /\ sock' = [sock EXCEPT ![w] = [state |-> "connected", home |-> k, received |-> 0]]
  /\ registry' = [registry EXCEPT ![k] = @ \cup {w}]
  /\ cast' = IF Iterating(k)
             THEN [cast EXCEPT !.obj = @ \cup {w}, !.interfered = TRUE]
             ELSE cast
  /\ UNCHANGED <<dialogvars, aivars, sendvars, hookvars, syncvars, normvars>>

\* The socket's state leaves CONNECTED before its handler has noticed.
Disconnect(w) ==
  /\ Suspended
  /\ sock[w].state = "connected"
  /\ sock' = [sock EXCEPT ![w].state = "disconnected"]
  /\ cast' = [cast EXCEPT !.stayed = @ \ {w}]
  /\ UNCHANGED <<registry, dialogvars, aivars, sendvars, hookvars, syncvars, normvars>>

\* unregister_admin / unregister_webchat after WebSocketDisconnect: discard
\* from the key's set, and drop the key when the set is empty.
Unregister(w) ==
  /\ Suspended
  /\ sock[w].state = "disconnected"
  /\ w \in registry[sock[w].home]
  /\ LET k == sock[w].home IN
       /\ registry' = [registry EXCEPT ![k] = @ \ {w}]
       /\ cast' = IF Iterating(k)
                  THEN [cast EXCEPT !.obj = @ \ {w},
                                    !.attached = (registry[k] \ {w}) # {},
                                    !.interfered = TRUE]
                  ELSE cast
  /\ UNCHANGED <<sock, dialogvars, aivars, sendvars, hookvars, syncvars, normvars>>

\* broadcast_to_admins / broadcast_to_webchat is called.
Cast_Start(call) ==
  /\ cast.pc = "idle"
  /\ cast' = [NoCast EXCEPT
                !.call = call, !.pc = "pick", !.todo = TargetKeys(call),
                !.stayed = {w \in Sockets : /\ sock[w].state = "connected"
                                            /\ sock[w].home \in TargetKeys(call)
                                            /\ w \in registry[sock[w].home]}]
  /\ UNCHANGED <<registry, sock, dialogvars, aivars, sendvars, hookvars, syncvars, normvars>>

\* The next key: _broadcast_to_connections starts on the set under it.
Cast_Pick ==
  /\ cast.pc = "pick"
  /\ IF cast.todo = {}
     THEN cast' = [cast EXCEPT !.pc = "done"]
     ELSE \E k \in cast.todo :
            cast' = [cast EXCEPT !.pc = "next", !.cur = k, !.todo = @ \ {k},
                                 !.obj = registry[k], !.attached = TRUE,
                                 !.used = Cardinality(registry[k]),
                                 !.visited = {}, !.disconnected = {}]
  /\ UNCHANGED <<registry, sock, dialogvars, aivars, sendvars, hookvars, syncvars, normvars>>

\* "for ws in connections": the set iterator raises RuntimeError when the
\* set's size is not the one it started with; a socket that is not
\* CONNECTED is noted and skipped, the others are written to.
Cast_Next ==
  /\ cast.pc = "next"
  /\ IF Cardinality(cast.obj) # cast.used
     THEN cast' = [cast EXCEPT !.pc = "done", !.raised = TRUE]
     ELSE IF cast.obj \ cast.visited = {}
     THEN cast' = [cast EXCEPT !.pc = "prune"]
     ELSE \E w \in cast.obj \ cast.visited :
            cast' = IF sock[w].state # "connected"
                    THEN [cast EXCEPT !.visited = @ \cup {w},
                                      !.disconnected = @ \cup {w},
                                      !.dead = @ \cup {w}]
                    ELSE [cast EXCEPT !.visited = @ \cup {w},
                                      !.writing = w, !.pc = "write"]
  /\ UNCHANGED <<registry, sock, dialogvars, aivars, sendvars, hookvars, syncvars, normvars>>

\* await ws.send_json(message) returns or raises; the except clause notes
\* the socket and the loop goes on.
Cast_Write ==
  /\ cast.pc = "write"
  /\ \E ok \in BOOLEAN :
       /\ ok => sock[cast.writing].state = "connected"
       /\ sock' = IF ok THEN [sock EXCEPT ![cast.writing].received = @ + 1]
                  ELSE sock
       /\ cast' = [cast EXCEPT
                     !.pc = "next", !.writing = "none",
                     !.disconnected = IF ok THEN @ ELSE @ \cup {cast.writing},
                     !.dead = IF ok THEN @ ELSE @ \cup {cast.writing},
                     !.stayed = IF ok THEN @ ELSE @ \ {cast.writing}]
  /\ UNCHANGED <<registry, dialogvars, aivars, sendvars, hookvars, syncvars, normvars>>

Discard_Nothing(connections, disconnected) == connections

\* "for ws in disconnected: connections.discard(ws)"
Discard(connections, disconnected) == connections \ disconnected

\* The sockets noted as disconnected leave the set.
Cast_Prune ==
  /\ cast.pc = "prune"
  /\ registry' = IF cast.attached
                 THEN [registry EXCEPT ![cast.cur] = Discard(@, cast.disconnected)]
                 ELSE registry
  /\ cast' = [cast EXCEPT !.pc = "pick",
                          !.obj = Discard(@, cast.disconnected)]
  /\ UNCHANGED <<sock, dialogvars, aivars, sendvars, hookvars, syncvars, normvars>>

\* ------------------------------------------------- CRM side-channel sync
\* wait_for(_sync(), timeout=3.0), in seconds
SYNC_TIMEOUT == 3

BlankText == "   "

\* The texts of an inbound message as sync_incoming_user_message tells them
\* apart.
SyncTexts == {NoText, "", BlankText, UserText}

\* sync_incoming_user_message: text and text.strip()
HasText(text) == text \notin {NoText, "", BlankText}

\* How _sync() can end before the timeout: no active integration, no dialog
\* row, both REST calls done, or an exception of either kind.
SyncEnds == {"no_integration", "no_dialog", "synced",
             "BitrixIntegrationError", "Exception"}

\* What ai_service.answer does for the main flow.
AnswerOutcomes == {"raised", "no_answer", "answer", "declined"}

NoSync ==
  [pc |-> "idle", text |-> NoText, dialog_created |-> FALSE, locked |-> FALSE,
   task |-> "none", joined |-> FALSE, elapsed |-> 0, task_end |-> "none",
   warnings |-> <<>>, ai |-> "none", task_at_answer |-> "none",
   result |-> "none"]

SyncIdle == crm = NoSync

\* process_incoming_message awaits the coroutine instead of making a task
StartSync_Awaited(c) == [c EXCEPT !.task = "scheduled", !.joined = TRUE]

\* asyncio.create_task(bitrix_service.sync_incoming_user_message(...)): the
\* coroutine is scheduled on the loop; the caller keeps no reference to the
\* task and does not await it.
StartSync(c) == [c EXCEPT !.task = "scheduled", !.joined = FALSE]

\* What process_incoming_message returns, given the operator-lock guard and
\* the outcome of ai_service.answer.
MainResult(locked, ai) ==
  IF locked THEN "user_only"
  ELSE IF ai = "raised" THEN "raised"
  ELSE IF ai = "no_answer" THEN "system_handoff"
  ELSE IF ai = "answer" THEN "answered"
  ELSE "declined"

\* The except clauses of sync_incoming_user_message: the warning logged for
\* an ending of wait_for.
SyncWarning(task_end) ==
  IF task_end = "TimeoutError" THEN <<"Bitrix24 integration timeout">>
  ELSE IF task_end = "BitrixIntegrationError" THEN <<"Bitrix24 integration error">>
  ELSE IF task_end = "Exception" THEN <<"Bitrix24 background sync failed">>
  ELSE <<>>

\* process_incoming_message from the user-message commit to the operator-lock
\* guard: the commit, the task creation and the guard run without an await
\* in between.
Sync_Commit(text, dialog_created, locked) ==
  /\ crm.pc = "idle"
  /\ LET c == StartSync([NoSync EXCEPT !.text = text,
                                       !.dialog_created = dialog_created,
                                       !.locked = locked])
     IN crm' = IF locked
               THEN [c EXCEPT !.pc = "done", !.result = MainResult(TRUE, "none")]
               ELSE [c EXCEPT !.pc = "answer"]
  /\ UNCHANGED <<dialogvars, aivars, sendvars, hookvars, castvars, normvars>>

\* The main flow from 'await ai_service.answer' to its return.
Main_Answer ==
  /\ crm.pc = "answer"
  /\ crm.joined => crm.task = "finished"
  /\ \E ai \in AnswerOutcomes :
       crm' = [crm EXCEPT !.pc = "done", !.ai = ai,
                          !.task_at_answer = crm.task,
                          !.result = MainResult(crm.locked, ai)]
  /\ UNCHANGED <<dialogvars, aivars, sendvars, hookvars, castvars, normvars>>

\* The loop runs the task for the first time: the text guard, then _sync()
\* under wait_for.
Task_Begin ==
  /\ crm.task = "scheduled"
  /\ crm' = IF HasText(crm.text)
            THEN [crm EXCEPT !.task = "running"]
            ELSE [crm EXCEPT !.task = "finished", !.task_end = "skipped"]
  /\ UNCHANGED <<dialogvars, aivars, sendvars, hookvars, castvars, normvars>>

\* A second passes while _sync() is waiting for the portal.
Task_Tick ==
  /\ crm.task = "running"
  /\ crm.elapsed < SYNC_TIMEOUT
  /\ crm' = [crm EXCEPT !.elapsed = @ + 1]
  /\ UNCHANGED <<dialogvars, aivars, sendvars, hookvars, castvars, normvars>>

\* _sync() ends before the timeout; the except clauses log its exception.
Task_End(task_end) ==
  /\ crm.task = "running"
  /\ crm.elapsed < SYNC_TIMEOUT
  /\ crm' = [crm EXCEPT !.task = "finished", !.task_end = task_end,
                        !.warnings = @ \o SyncWarning(task_end)]
  /\ UNCHANGED <<dialogvars, aivars, sendvars, hookvars, castvars, normvars>>

\* wait_for cancels _sync() at the timeout; except asyncio.TimeoutError.
Task_Timeout ==
  /\ crm.task = "running"
  /\ crm.elapsed = SYNC_TIMEOUT
  /\ crm' = [crm EXCEPT !.task = "finished", !.task_end = "TimeoutError",
                        !.warnings = @ \o SyncWarning("TimeoutError")]
  /\ UNCHANGED <<dialogvars, aivars, sendvars, hookvars, castvars, normvars>>

\* ---------------------------------------------------- channel normalizers
\* What a key of a JSON object can hold: nothing, null, or a non-empty
\* string, list or object.
JsonKinds == {"missing", "null", "string", "list", "object"}

\* Python truth of such a value
IsTruthy(kind) == kind \in {"string", "list", "object"}

\* x.get(...) exists on dicts only
HasGet(kind) == kind = "object"

Directions == {"missing", "in", "out", "OUT"}
MessageTypes == {"missing", "message", "system"}

NoUpdate ==
  [channel |-> "none", message |-> "missing", chat |-> "missing",
   from |-> "missing", payload |-> "missing", value |-> "missing",
   content |-> "missing", text |-> "missing",
   direction |-> "missing", type |-> "missing"]

\* Telegram updates {"message": ...} whose message, when an object, holds
\* from, chat and text.
TelegramUpdates ==
  {[NoUpdate EXCEPT !.channel = "telegram", !.message = m, !.from = f,
                    !.chat = c, !.text = t] :
     m \in JsonKinds, f \in JsonKinds, c \in JsonKinds, t \in JsonKinds}

\* Custom WhatsApp bodies {"message": ..., "text": ...}; the text is read
\* from the message when there is one.
WhatsappBodies ==
  {[NoUpdate EXCEPT !.channel = "whatsapp_custom", !.message = m, !.text = t] :
     m \in JsonKinds, t \in JsonKinds}

\* Avito updates {"payload": {"value": {"content": {"text": ...},
\* "direction": ..., "type": ...}}}; direction and type are read from the
\* update itself when there is no value.
AvitoUpdates ==
  {[NoUpdate EXCEPT !.channel = "avito", !.payload = p, !.value = v,
                    !.content = c, !.text = t, !.direction = d, !.type = ty] :
     p \in JsonKinds, v \in JsonKinds, c \in JsonKinds, t \in JsonKinds,
     d \in Directions, ty \in MessageTypes}

\* A nested key exists only inside an object.
WellNested(u) ==
  /\ u.channel = "telegram" /\ u.message # "object"
       => u.from = "missing" /\ u.chat = "missing" /\ u.text = "missing"
  /\ u.channel = "whatsapp_custom" /\ u.message \in {"string", "list"}
       => u.text = "missing"
  /\ u.payload # "object" => u.value = "missing"
  /\ u.value # "object" => u.content = "missing"
  /\ u.content # "object" => u.text = "missing" \/ u.channel # "avito"
  /\ u.channel = "avito" /\ IsTruthy(u.payload) /\ u.value # "object"
       => u.direction = "missing" /\ u.type = "missing"

Updates ==
  {u \in TelegramUpdates \cup WhatsappBodies \cup AvitoUpdates : WellNested(u)}

\* What a normalizer call ends with: the NormalizedIncomingMessage or the
\* exception that left it.
Normalized(chat_id, user_id, text, skip, reason) ==
  [raised |-> "none", external_chat_id |-> chat_id, external_user_id |-> user_id,
   text |-> text, skip_processing |-> skip, skip_reason |-> reason]

NormRaised(exc) ==
  [raised |-> exc, external_chat_id |-> "none", external_user_id |-> "none",
   text |-> "none", skip_processing |-> FALSE, skip_reason |-> "none"]

\* NormalizedIncomingMessage(text=...): the field is str | None
TextValidates(kind) == kind \in {"missing", "null", "string"}

TextOut(kind) == IF kind = "string" THEN "text" ELSE ""

\* normalize_telegram_update with _extract_telegram_message
normalize_telegram_update(update) ==
  IF ~IsTruthy(update.message)
  THEN Normalized("", "", "", FALSE, "none")
  ELSE IF ~HasGet(update.message) THEN NormRaised("AttributeError")
  ELSE IF IsTruthy(update.from) /\ ~HasGet(update.from)
       THEN NormRaised("AttributeError")
  ELSE IF IsTruthy(update.chat) /\ ~HasGet(update.chat)
       THEN NormRaised("AttributeError")
  ELSE IF IsTruthy(update.text) /\ ~TextValidates(update.text)
       THEN NormRaised("ValidationError")
  ELSE LET user_id == IF update.from = "object" THEN "u1" ELSE ""
           chat_id == IF update.chat = "object" THEN "c1" ELSE user_id
       IN Normalized(chat_id, user_id, TextOut(update.text), FALSE, "none")

\* normalize_whatsapp_custom_webhook
normalize_whatsapp_custom_webhook(payload) ==
  IF IsTruthy(payload.message) /\ ~HasGet(payload.message)
  THEN NormRaised("AttributeError")
  ELSE IF payload.text = "list" THEN NormRaised("ValidationError")
  ELSE Normalized("", "", IF payload.text \in {"string", "object"} THEN "text" ELSE "",
                  FALSE, "none")

\* str(direction).lower()
Lower(direction) == IF direction = "OUT" THEN "out" ELSE direction

\* skip_reason with the outgoing echo tested first
skip_reason_OutgoingFirst(direction, message_type) ==
  IF direction # "missing" /\ Lower(direction) = "out" THEN "outgoing_message"
  ELSE IF message_type = "system" THEN "system_message"
  ELSE "none"

\* normalize_avito_update, the skip_reason it computes from the type and
\* the direction ("none" for None)
skip_reason(direction, message_type) ==
  IF message_type = "system" THEN "system_message"
  ELSE IF direction # "missing" /\ Lower(direction) = "out" THEN "outgoing_message"
  ELSE "none"

\* normalize_avito_update
normalize_avito_update(update) ==
  IF IsTruthy(update.payload) /\ ~HasGet(update.payload)
  THEN NormRaised("AttributeError")
  ELSE IF IsTruthy(update.value) /\ ~HasGet(update.value)
       THEN NormRaised("AttributeError")
  ELSE IF update.content = "object" /\ IsTruthy(update.text)
          /\ ~TextValidates(update.text)
       THEN NormRaised("ValidationError")
  ELSE LET reason == skip_reason(update.direction, update.type)
           text == IF update.content = "object" THEN TextOut(update.text) ELSE ""
       IN Normalized("", "", text, reason # "none", reason)

NoNorm ==
  [pc |-> "idle", in |-> NoUpdate, out |-> NormRaised("none"),
   branch |-> "none", response |-> 0, processed |-> FALSE]

NormIdle == norm = NoNorm

\* telegram_webhook: the body goes through normalize_telegram_update
Normalize_Telegram(update) ==
  /\ norm.pc = "idle" /\ update.channel = "telegram"
  /\ norm' = [norm EXCEPT !.pc = "done", !.in = update,
                          !.out = normalize_telegram_update(update)]
  /\ UNCHANGED <<dialogvars, aivars, sendvars, hookvars, castvars, syncvars>>

\* whatsapp_custom_webhook: the body goes through
\* normalize_whatsapp_custom_webhook
Normalize_WhatsappCustom(payload) ==
  /\ norm.pc = "idle" /\ payload.channel = "whatsapp_custom"
  /\ norm' = [norm EXCEPT !.pc = "done", !.in = payload,
                          !.out = normalize_whatsapp_custom_webhook(payload)]
  /\ UNCHANGED <<dialogvars, aivars, sendvars, hookvars, castvars, syncvars>>

\* avito_webhook: the body goes through normalize_avito_update
Normalize_Avito(update) ==
  /\ norm.pc = "idle" /\ update.channel = "avito"
  /\ norm' = [norm EXCEPT !.pc = "avito_normalized", !.in = update,
                          !.out = normalize_avito_update(update)]
  /\ UNCHANGED <<dialogvars, aivars, sendvars, hookvars, castvars, syncvars>>

\* avito_webhook after the normalizer: an exception of the normalizer leaves
\* the handler; otherwise the skip branch or the received branch is taken,
\* and each builds its log record from normalized.item_id, an attribute
\* NormalizedIncomingMessage does not have, before _process_and_broadcast.
Avito_Branch ==
  /\ norm.pc = "avito_normalized"
  /\ norm' = [norm EXCEPT !.pc = "done",
                          !.branch = IF norm.out.raised # "none" THEN "none"
                                     ELSE IF norm.out.skip_processing THEN "skipped"
                                     ELSE "received",
                          !.response = 500,
                          !.processed = FALSE]
  /\ UNCHANGED <<dialogvars, aivars, sendvars, hookvars, castvars, syncvars>>

\* ------------------------------------------- webhooks and event fan-out
Endpoints == {"telegram_webhook", "avito_webhook"}

NoSecret == "<no secret>"

\* The channel row, the secret the request carries and its body: an update
\* the normalizer reads, an update whose "message" is not an object, or
\* bytes that are not JSON (the Avito endpoint parses the body itself).
HookInputs ==
  {h \in [endpoint : Endpoints, channel : BOOLEAN, is_active : BOOLEAN,
          expected_secret : {NoSecret, "s1"},
          provided_secret : {NoSecret, "s1", "s2"},
          body : {"update", "malformed", "not_json"}] :
     h.endpoint = "telegram_webhook" => h.body # "not_json"}

NoRequest ==
  [endpoint |-> "none", channel |-> FALSE, is_active |-> FALSE,
   expected_secret |-> NoSecret, provided_secret |-> NoSecret, body |-> "update"]

\* A webhook request being handled: its response status (None until it is
\* answered), the senders of the messages process_incoming_message
\* persisted, whether the dialog row was written, the outbound sends, and
\* the manager calls _broadcast_message_events has still to make.
NewRequest(in) ==
  [in |-> in, pc |-> "received", response |-> None, persisted |-> <<>>,
   dialog_created |-> FALSE, dialog_written |-> FALSE,
   assigned_admin_id |-> None, sent |-> 0, calls |-> <<>>, made |-> 0]

\* The sockets registered with the manager: one per admin and one for the
\* webchat session with the dialog's external chat id.
Connections == {"admin1", "admin2", "webchat"}

AdminOf(c) == IF c = "admin1" THEN 1 ELSE IF c = "admin2" THEN 2 ELSE None

\* from_start says that the socket registered before the first manager call.
NoConnection == [connected |-> FALSE, from_start |-> FALSE, inbox |-> <<>>]

HookIdle == hook = NewRequest(NoRequest) /\ ws = [c \in Connections |-> NoConnection]

Event(event, message) == [event |-> event, message |-> message]

Call(target, event) == [target |-> target, event |-> event]

RECURSIVE MessageCalls_UpdatedFirst(_, _)
MessageCalls_UpdatedFirst(k, n) ==
  IF k > n THEN <<>>
  ELSE <<Call("admins", Event("dialog_updated", k)),
         Call("admins", Event("message_created", k)),
         Call("webchat", Event("dialog_updated", k)),
         Call("webchat", Event("message_created", k))>>
       \o MessageCalls_UpdatedFirst(k + 1, n)

\* The loop over the persisted messages k..n.
RECURSIVE MessageCalls(_, _)
MessageCalls(k, n) ==
  IF k > n THEN <<>>
  ELSE <<Call("admins", Event("message_created", k)),
         Call("admins", Event("dialog_updated", k)),
         Call("webchat", Event("message_created", k)),
         Call("webchat", Event("dialog_updated", k))>>
       \o MessageCalls(k + 1, n)

\* The manager calls of one _broadcast_message_events, in order.
_broadcast_message_events(msgs, dialog_created) ==
  (IF dialog_created
   THEN <<Call("admins", Event("dialog_created", 0)),
          Call("webchat", Event("dialog_created", 0))>>
   ELSE <<>>)
  \o MessageCalls(1, Len(msgs))

_validate_secret_OnlyProvided(expected, provided) ==
  expected # NoSecret /\ provided # NoSecret /\ expected # provided

\* TRUE when _validate_secret raises the 403.
_validate_secret(expected, provided) ==
  expected # NoSecret /\ expected # provided

\* _ensure_channel_available raises the 404.
ChannelUnavailable(in) == ~in.channel \/ ~in.is_active

Respond(h, status) == [h EXCEPT !.pc = "done", !.response = status]

\* telegram_webhook up to _process_and_broadcast.  normalize_telegram_update
\* calls message.get on whatever the update holds under "message".
Hook_Telegram ==
  /\ hook.pc = "received" /\ hook.in.endpoint = "telegram_webhook"
  /\ hook' = IF ChannelUnavailable(hook.in) THEN Respond(hook, 404)
             ELSE IF _validate_secret(hook.in.expected_secret, hook.in.provided_secret)
                  THEN Respond(hook, 403)
             ELSE IF hook.in.body = "malformed" THEN Respond(hook, 500)
             ELSE [hook EXCEPT !.pc = "process"]
  /\ UNCHANGED <<ws, dialogvars, aivars, sendvars, castvars, syncvars, normvars>>

\* avito_webhook.  After the body is parsed both branches read
\* normalized.item_id, a field NormalizedIncomingMessage does not have, so
\* the handler ends there with an AttributeError.
Hook_Avito ==
  /\ hook.pc = "received" /\ hook.in.endpoint = "avito_webhook"
  /\ hook' = IF ChannelUnavailable(hook.in) THEN Respond(hook, 404)
             ELSE IF hook.in.expected_secret = NoSecret THEN Respond(hook, 403)
             ELSE IF hook.in.expected_secret # hook.in.provided_secret
                  THEN Respond(hook, 403)
             ELSE IF hook.in.body = "not_json" THEN Respond(hook, 400)
             ELSE Respond(hook, 500)
  /\ UNCHANGED <<ws, dialogvars, aivars, sendvars, castvars, syncvars, normvars>>

\* process_incoming_message as _process_and_broadcast sees it: found says
\* whether the open dialog existed, locked whether an operator holds it,
\* admin whom it is assigned to.  A new dialog is unassigned and unlocked.
Hook_Process ==
  /\ hook.pc = "process"
  /\ \E found \in BOOLEAN, locked \in BOOLEAN, in \in AIInputs,
        admin \in Admins \cup {None} :
       /\ locked => found /\ admin # None
       /\ ~found => admin = None
       /\ LET answer == generate_answer(in)
              h == [hook EXCEPT !.persisted = <<USER>>,
                                !.dialog_created = ~found,
                                !.dialog_written = TRUE,
                                !.assigned_admin_id = admin]
              Broadcast(r) ==
                [r EXCEPT !.pc = "broadcast",
                          !.calls = _broadcast_message_events(r.persisted,
                                                              r.dialog_created)]
          IN hook' =
               IF locked THEN Broadcast(h)
               ELSE IF answer.raised THEN Respond(h, 500)
               ELSE IF IsNoAnswer(answer)
                    THEN Broadcast([h EXCEPT !.persisted = <<USER, BOT>>])
               ELSE IF IsAnswer(answer)
                    THEN Broadcast([h EXCEPT !.persisted = <<USER, BOT>>,
                                             !.sent = 1])
               ELSE Broadcast(h)
  /\ UNCHANGED <<ws, dialogvars, aivars, sendvars, castvars, syncvars, normvars>>

\* The connections one manager call goes to.
Targets(call) ==
  IF call.target = "webchat" THEN {"webchat"}
  ELSE {c \in {"admin1", "admin2"} :
          hook.assigned_admin_id = None \/ hook.assigned_admin_id = AdminOf(c)}

\* One manager call: every target socket that is connected gets the event;
\* a socket whose send_json fails is discarded.
Hook_Broadcast ==
  /\ hook.pc = "broadcast" /\ hook.calls # <<>>
  /\ LET call == Head(hook.calls) IN
       \E failing \in SUBSET {c \in Targets(call) : ws[c].connected} :
         ws' = [c \in Connections |->
                  IF c \in failing THEN [ws[c] EXCEPT !.connected = FALSE]
                  ELSE IF c \in Targets(call) /\ ws[c].connected
                       THEN [ws[c] EXCEPT !.inbox = Append(@, call.event)]
                  ELSE ws[c]]
  /\ hook' = [hook EXCEPT !.calls = Tail(@), !.made = @ + 1]
  /\ UNCHANGED <<dialogvars, aivars, sendvars, castvars, syncvars, normvars>>

\* The endpoint returns its acknowledgement.
Hook_Return ==
  /\ hook.pc = "broadcast" /\ hook.calls = <<>>
  /\ hook' = Respond(hook, 200)
  /\ UNCHANGED <<ws, dialogvars, aivars, sendvars, castvars, syncvars, normvars>>

\* register_admin / register_webchat: a new socket connects.
WS_Register(c) ==
  /\ hook.pc # "done"
  /\ ~ws[c].connected /\ ws[c].inbox = <<>>
  /\ ws' = [ws EXCEPT ![c] = [connected |-> TRUE, from_start |-> hook.made = 0, inbox |-> <<>>]]
  /\ UNCHANGED <<hook, dialogvars, aivars, sendvars, castvars, syncvars, normvars>>

\* unregister_admin / unregister_webchat: the socket went away.
WS_Unregister(c) ==
  /\ hook.pc # "done"
  /\ ws[c].connected
  /\ ws' = [ws EXCEPT ![c].connected = FALSE]
  /\ UNCHANGED <<hook, dialogvars, aivars, sendvars, castvars, syncvars, normvars>>

\* --------------------------------------------------------- specifications
Empty ==
  /\ dialogs = <<>>
  /\ messages = <<>>
  /\ recent = <<>>
  /\ sends = <<>>
  /\ req = [p \in Procs |-> Idle]
  /\ started = 0
  /\ oplog = <<>>

Next ==
  \E p \in Procs :
    \/ \E ct \in ChannelTypes, chat \in ChatIds : PI_Find(p, ct, chat)
    \/ PI_Insert(p)
    \/ PI_UserCommit(p)
    \/ PI_Answer(p)
    \/ PI_Send(p)
    \/ \E op \in OperatorOps, d \in 1..MaxDialogs, a \in Admins \cup {None} :
         OpLoad(p, op, d, a)
    \/ LockCommit(p)
    \/ UnlockCommit(p)
    \/ CloseCommit(p)
    \/ SwitchCommit(p)
    \/ SwitchAnswer(p)
    \/ AM_Find(p)
    \/ AM_Insert(p)
    \/ AM_Commit(p)
    \/ SwitchFinish(p)
    \/ Return(p)

\* Requests are handled concurrently, each in its own session.
Init == Empty /\ sequential = FALSE /\ AIIdle /\ SendIdle /\ HookIdle /\ CastIdle /\ SyncIdle /\ NormIdle

Spec == Init /\ [][Next]_vars

\* One client issuing its requests one after the other.
InitSeq == Empty /\ sequential = TRUE /\ AIIdle /\ SendIdle /\ HookIdle /\ CastIdle /\ SyncIdle /\ NormIdle

\* Without interleaving, add_message always finds the open dialog its
\* caller loaded, so the INSERT of get_or_create_dialog inside add_message
\* has no step here.
NextSeq ==
  \/ \E ct \in ChannelTypes, chat \in ChatIds : PI_Find("r1", ct, chat)
  \/ PI_Insert("r1")
  \/ PI_UserCommit("r1")
  \/ PI_Answer("r1")
  \/ PI_Send("r1")
  \/ \E op \in OperatorOps, d \in 1..MaxDialogs, a \in Admins \cup {None} :
       OpLoad("r1", op, d, a)
  \/ LockCommit("r1")
  \/ UnlockCommit("r1")
  \/ CloseCommit("r1")
  \/ SwitchCommit("r1")
  \/ SwitchAnswer("r1")
  \/ AM_Find("r1")
  \/ AM_Commit("r1")
  \/ SwitchFinish("r1")
  \/ Return("r1")

SpecSeq == InitSeq /\ [][NextSeq]_vars

\* One generate_answer call on every input.
InitAI ==
  /\ Empty /\ sequential = FALSE /\ SendIdle /\ HookIdle /\ CastIdle /\ SyncIdle /\ NormIdle
  /\ ai_in \in GenInputs /\ ai_out = NoAnswerYet

NextAI == Generate

SpecAI == InitAI /\ [][NextAI]_vars

\* One send_text call of every sender on every channel row.
InitSend ==
  /\ Empty /\ sequential = FALSE /\ AIIdle /\ HookIdle /\ CastIdle /\ SyncIdle /\ NormIdle
  /\ \E in \in SendInputs : snd = NewCall(in)

NextSend ==
  \/ Avito_Begin
  \/ Avito_Send
  \/ Avito_Retry
  \/ Avito_Record
  \/ Avito_Except
  \/ Telegram_Begin
  \/ Telegram_Send
  \/ Webchat_Send
  \/ PI_AfterSend

SpecSend == InitSend /\ [][NextSend]_vars

\* One webhook request on every channel row, secret and body, with
\* consoles and widgets connecting and disconnecting meanwhile.
InitHook ==
  /\ Empty /\ sequential = FALSE /\ AIIdle /\ SendIdle /\ CastIdle /\ SyncIdle /\ NormIdle
  /\ \E in \in HookInputs : hook = NewRequest(in)
  /\ ws = [c \in Connections |-> NoConnection]

NextHook ==
  \/ Hook_Telegram
  \/ Hook_Avito
  \/ Hook_Process
  \/ Hook_Broadcast
  \/ Hook_Return
  \/ \E c \in Connections : WS_Register(c)
  \/ \E c \in Connections : WS_Unregister(c)

SpecHook == InitHook /\ [][NextHook]_vars

\* Sockets registering, disconnecting and unregistering around and during
\* one broadcast.
InitCast ==
  /\ Empty /\ sequential = FALSE /\ AIIdle /\ SendIdle /\ HookIdle /\ SyncIdle /\ NormIdle
  /\ CastIdle

NextCast ==
  \/ \E w \in Sockets, k \in Keys : Register(w, k)
  \/ \E w \in Sockets : Disconnect(w)
  \/ \E w \in Sockets : Unregister(w)
  \/ \E call \in Broadcasts : Cast_Start(call)
  \/ Cast_Pick
  \/ Cast_Next
  \/ Cast_Write
  \/ Cast_Prune

SpecCast == InitCast /\ [][NextCast]_vars

\* ------------------------------------------------------------------ claims
Foreign(r) == r.loaded.assigned_admin_id \notin {None, r.admin_id}

\* One process_incoming_message call and the CRM task it starts.
InitSync ==
  /\ Empty /\ sequential = FALSE /\ AIIdle /\ SendIdle /\ HookIdle /\ CastIdle /\ NormIdle
  /\ SyncIdle

NextSync ==
  \/ \E text \in SyncTexts, dialog_created \in BOOLEAN, locked \in BOOLEAN :
       Sync_Commit(text, dialog_created, locked)
  \/ Main_Answer
  \/ Task_Begin
  \/ Task_Tick
  \/ \E task_end \in SyncEnds : Task_End(task_end)
  \/ Task_Timeout

SpecSync == InitSync /\ [][NextSync]_vars

\* One webhook body through its channel's normalizer.
InitNorm ==
  /\ Empty /\ sequential = FALSE /\ AIIdle /\ SendIdle /\ HookIdle /\ CastIdle
  /\ SyncIdle /\ NormIdle

NextNorm ==
  \/ \E update \in Updates : Normalize_Telegram(update)
  \/ \E payload \in Updates : Normalize_WhatsappCustom(payload)
  \/ \E update \in Updates : Normalize_Avito(update)
  \/ Avito_Branch

SpecNorm == InitNorm /\ [][NextNorm]_vars

\* C1: for every (bot, channel type, external chat) key at most one dialog
\* with closed = false exists, also when two process_incoming calls of the
\* same key both run the find step before either inserts.
C1_AtMostOneOpenDialog ==
  \A i \in 1..Len(dialogs), j \in 1..Len(dialogs) :
    (/\ i # j
     /\ dialogs[i].channel_type = dialogs[j].channel_type
     /\ dialogs[i].external_chat_id = dialogs[j].external_chat_id
     /\ ~dialogs[i].closed)
    => dialogs[j].closed

\* C2: when two different admins lock the same unassigned dialog and each
\* request loads the dialog before the other commits, at most one of the
\* two lock requests succeeds.
C2_AtMostOneLockSucceeds ==
  \A p \in Procs, q \in Procs :
    (/\ p # q
     /\ req[p].op = "lock" /\ req[q].op = "lock"
     /\ req[p].pc = "done" /\ req[q].pc = "done"
     /\ req[p].loaded.id = req[q].loaded.id
     /\ req[p].loaded.assigned_admin_id = None
     /\ req[q].loaded.assigned_admin_id = None
     /\ req[p].admin_id # req[q].admin_id)
    => ~(req[p].outcome = "ok" /\ req[q].outcome = "ok")

\* C3: in every reachable state a dialog with is_locked = true has a
\* non-null assigned_admin_id.
C3_LockedImpliesAssigned ==
  \A d \in 1..Len(dialogs) :
    dialogs[d].is_locked => dialogs[d].assigned_admin_id # None

C3_Witness ==
  \E d \in 1..Len(dialogs), p \in Procs :
    /\ dialogs[d].is_locked
    /\ req[p].pc = "done" /\ req[p].op = "lock" /\ req[p].outcome = "ok"
    /\ req[p].loaded.id = d

\* The first four logged operator calls are lock(D,A), lock(D,B),
\* unlock(D,A), lock(D,B) on a dialog D that was unassigned.
LockSequence(i, A, B) ==
  /\ Len(oplog) >= i + 3
  /\ \A k \in i..(i + 3) : oplog[k].before.id = oplog[i].before.id
  /\ oplog[i].before.assigned_admin_id = None
  /\ oplog[i].op = "lock" /\ oplog[i].admin_id = A
  /\ oplog[i + 1].op = "lock" /\ oplog[i + 1].admin_id = B
  /\ oplog[i + 2].op = "unlock" /\ oplog[i + 2].admin_id = A
  /\ oplog[i + 3].op = "lock" /\ oplog[i + 3].admin_id = B

LockSequenceOutcome(i, B) ==
  /\ oplog[i].outcome = "ok"
  /\ oplog[i + 1].outcome = "DialogLockError"
  /\ oplog[i + 2].outcome = "ok"
  /\ oplog[i + 3].outcome = "ok"
  /\ oplog[i + 3].dialog.is_locked
  /\ oplog[i + 3].dialog.assigned_admin_id = B

\* C4: from an unassigned dialog D and distinct admins A and B, the calls
\* lock(D,A), lock(D,B), unlock(D,A), lock(D,B) end in success,
\* DialogLockError, success, success, and leave D locked and assigned to B.
C4_LockConflictSequence ==
  \A i \in 1..MaxOps, A \in Admins, B \in Admins :
    (A # B /\ LockSequence(i, A, B)) => LockSequenceOutcome(i, B)

C4_Witness ==
  \E i \in 1..MaxOps, A \in Admins, B \in Admins :
    A # B /\ LockSequence(i, A, B) /\ LockSequenceOutcome(i, B)

\* C5 as stated: for a dialog assigned to admin A, every lock, unlock or
\* switch_to_auto request of another admin B fails with DialogLockError.
C5_ForeignRequestGetsLockError ==
  \A p \in Procs :
    (/\ req[p].pc = "done"
     /\ req[p].op \in {"lock", "unlock", "switch_to_auto"}
     /\ Foreign(req[p]))
    => req[p].outcome = "DialogLockError"

\* C5 as amended: for a dialog assigned to admin A, every lock or unlock
\* request of another admin B fails with DialogLockError, every
\* switch_to_auto request of B fails with DialogLockError when the dialog is
\* not closed and with ValueError when it is closed, and the failed request
\* leaves every dialog row and the message list unchanged.
C5_ForeignRequestFailsUnchanged ==
  [][\A p \in Procs :
       (/\ req[p].pc = "op_loaded"
        /\ req[p].op \in {"lock", "unlock", "switch_to_auto"}
        /\ Foreign(req[p])
        /\ req'[p] # req[p])
       => /\ req'[p].pc = "done"
          /\ req'[p].outcome =
               IF req[p].op = "switch_to_auto" /\ req[p].loaded.closed
               THEN "ValueError" ELSE "DialogLockError"
          /\ dialogs' = dialogs
          /\ messages' = messages]_vars

C5_Witness ==
  \E p \in Procs :
    /\ req[p].pc = "done"
    /\ req[p].op = "unlock"
    /\ Foreign(req[p])
    /\ req[p].loaded.is_locked
    /\ req[p].outcome = "DialogLockError"
    /\ dialogs[req[p].loaded.id] = req[p].loaded

\* C6: after admin A locks a dialog and then A unlocks it, the dialog
\* returned by unlock has is_locked = false and assigned_admin_id still
\* equal to A's id.
C6_UnlockKeepsAssignee ==
  \A i \in 1..MaxOps :
    (/\ Len(oplog) >= i + 1
     /\ oplog[i].op = "lock" /\ oplog[i].outcome = "ok"
     /\ oplog[i + 1].op = "unlock" /\ oplog[i + 1].outcome = "ok"
     /\ oplog[i + 1].admin_id = oplog[i].admin_id
     /\ oplog[i + 1].before.id = oplog[i].before.id)
    => /\ ~oplog[i + 1].dialog.is_locked
       /\ oplog[i + 1].dialog.assigned_admin_id = oplog[i].admin_id

\* C7: lock(D, A) on a dialog that is unassigned or already assigned to A
\* succeeds and leaves is_locked = true, assigned_admin_id = A and
\* locked_until = None, without changing status, closed or unread count.
C7_LockSucceeds ==
  \A i \in 1..Len(oplog) :
    (oplog[i].op = "lock" /\ ~Foreign([loaded |-> oplog[i].before,
                                       admin_id |-> oplog[i].admin_id]))
    => /\ oplog[i].outcome = "ok"
       /\ oplog[i].dialog.is_locked
       /\ oplog[i].dialog.assigned_admin_id = oplog[i].admin_id
       /\ oplog[i].dialog.locked_until = None
       /\ oplog[i].dialog.status = oplog[i].before.status
       /\ oplog[i].dialog.closed = oplog[i].before.closed
       /\ oplog[i].dialog.unread_messages_count = oplog[i].before.unread_messages_count

C7_Witness ==
  \E i \in 1..Len(oplog) :
    /\ oplog[i].op = "lock" /\ oplog[i].outcome = "ok"
    /\ oplog[i].before.assigned_admin_id = oplog[i].admin_id
    /\ oplog[i].before.unread_messages_count > 0
    /\ oplog[i].dialog.is_locked

\* C8: process_incoming on a dialog that is locked by an operator persists
\* only the user message: it does not invoke the auto-answer pipeline,
\* persists no bot message and performs no outbound send.
C8_LockedDialogNotAutoAnswered ==
  \A p \in Procs :
    (req[p].op = "incoming" /\ req[p].locked_at_guard)
    => /\ req[p].pc # "pi_answer"
       /\ ~req[p].ai_called
       /\ req[p].bot_message = 0
       /\ req[p].sent = 0

\* The pipeline declines without a transport failure: a knowledge-enabled
\* bot with no chunk above the similarity floor, or with a top score below
\* the confidence threshold.
Declines(in) ==
  /\ in.cfg = "knowledge"
  /\ ~in.embed_error
  /\ \/ find_relevant_chunks(in.scores) = <<>>
     \/ /\ in.gen \notin {"RuntimeError", "HTTPError"}
        /\ Confidence(find_relevant_chunks(in.scores)) < CONFIDENCE_THRESHOLD

\* C9: when the pipeline declines without a transport failure,
\* process_incoming persists no bot message, performs no outbound send,
\* returns only the user message and leaves the dialog in WAIT_OPERATOR.
C9_DeclinePersistsNoBotMessage ==
  \A p \in Procs :
    (/\ req[p].op = "incoming" /\ req[p].pc = "done"
     /\ req[p].ai_called /\ Declines(req[p].ai))
    => /\ req[p].bot_message = 0
       /\ req[p].sent = 0
       /\ req[p].dialog.status = WAIT_OPERATOR

UnconfiguredAnswered(r) ==
  /\ r.op = "incoming" /\ r.pc = "done"
  /\ r.dialog_created
  /\ r.ai_called /\ r.ai.cfg = "none" /\ r.ai.gen = GeneratedText

\* C10: for an unconfigured bot whose generation capability returns a
\* non-empty text, one process_incoming on a chat with no open dialog
\* creates one dialog whose status, as the request reads it back after each
\* of its commits, passes through AUTO, WAIT_OPERATOR, WAIT_USER in that
\* order, persists one user message and one bot message carrying the
\* generated text, and performs one outbound send through the sender
\* registered for the message's channel type.
C10_UnconfiguredBotAnswers ==
  \A p \in Procs :
    UnconfiguredAnswered(req[p])
    => /\ req[p].statuses = <<AUTO, WAIT_OPERATOR, WAIT_USER>>
       /\ req[p].user_message \in 1..Len(messages)
       /\ req[p].bot_message \in 1..Len(messages)
       /\ req[p].user_message < req[p].bot_message
       /\ messages[req[p].user_message] =
            DialogMessage(req[p].dialog.id, USER, UserText, FALSE)
       /\ messages[req[p].bot_message] =
            DialogMessage(req[p].dialog.id, BOT, GeneratedText, FALSE)
       /\ req[p].sent = 1
       /\ \E i \in 1..Len(sends) :
            sends[i] = [sender |-> _sender_registry[req[p].channel_type],
                        external_chat_id |-> req[p].external_chat_id,
                        text |-> GeneratedText]

C10_Witness ==
  \E p \in Procs :
    /\ UnconfiguredAnswered(req[p])
    /\ req[p].outcome = "answered"
    /\ req[p].sent = 1
    /\ dialogs[req[p].dialog.id].status = WAIT_USER

\* The generation capability was called and failed: with a configuration
\* error (RuntimeError) or with a transport error (the httpx error).
GenerationFailed(in) ==
  /\ in.gen \in {"RuntimeError", "HTTPError"}
  /\ in.cfg = "knowledge" => (~in.embed_error /\ find_relevant_chunks(in.scores) # <<>>)

\* C11: when the generation capability fails with a transport or
\* configuration error during process_incoming, the call does not raise to
\* its caller: the dialog ends in WAIT_OPERATOR with one bot message marked
\* system after the user message, and no outbound send is performed.
C11_GenerationFailureHandsOff ==
  \A p \in Procs :
    (/\ req[p].op = "incoming" /\ req[p].pc = "done"
     /\ req[p].ai_called /\ GenerationFailed(req[p].ai))
    => /\ req[p].outcome # "raised"
       /\ req[p].dialog.status = WAIT_OPERATOR
       /\ req[p].bot_message \in 1..Len(messages)
       /\ req[p].user_message < req[p].bot_message
       /\ messages[req[p].bot_message].sender = BOT
       /\ messages[req[p].bot_message].system
       /\ req[p].sent = 0

\* A knowledge-enabled bot for which at least one chunk was retrieved.
KnowledgeWithChunks(in) ==
  /\ in.cfg = "knowledge" /\ ~in.embed_error
  /\ \E x \in in.scores : x >= MIN_SIMILARITY

\* C12: for a knowledge-enabled bot with at least one retrieved chunk, a
\* generate_answer call that returns has can_answer = true exactly when the
\* generated text is non-empty and the highest chunk score is at least the
\* confidence threshold; then the answer is the generated text, and in
\* every other case can_answer = false and there is no answer text.
C12_ConfidenceGate ==
  (ai_out # NoAnswerYet /\ ~ai_out.raised /\ KnowledgeWithChunks(ai_in))
  => /\ ai_out.can_answer <=> (/\ ai_in.gen = GeneratedText
                                /\ Max(ai_in.scores) >= CONFIDENCE_THRESHOLD)
     /\ ai_out.can_answer => ai_out.answer = ai_in.gen
     /\ ~ai_out.can_answer => ai_out.answer = NoText

C12_Witness ==
  /\ KnowledgeWithChunks(ai_in)
  /\ Max(ai_in.scores) = CONFIDENCE_THRESHOLD
  /\ ai_in.gen = GeneratedText
  /\ ai_out.can_answer /\ ai_out.answer = GeneratedText

\* A finished switch_to_auto of the assignee, or on an unassigned dialog,
\* that was not closed and whose latest message was a user message, for
\* which the pipeline answered.
SwitchAnswered(r) ==
  /\ r.op = "switch_to_auto" /\ r.pc = "done"
  /\ ~r.loaded.closed /\ ~Foreign(r)
  /\ r.ai_called /\ IsAnswer(generate_answer(r.ai))

\* C13: such a switch_to_auto has the same result as steps 7-10 of
\* process_incoming: one bot message is persisted, the dialog ends with
\* status WAIT_USER, unread count 0 and cleared lock fields, and exactly
\* one outbound send is dispatched through the channel's sender.
C13_SwitchToAutoAnswersLikeIncoming ==
  \A p \in Procs :
    SwitchAnswered(req[p])
    => /\ req[p].bot_message \in 1..Len(messages)
       /\ messages[req[p].bot_message].sender = BOT
       /\ req[p].dialog.status = WAIT_USER
       /\ req[p].dialog.unread_messages_count = 0
       /\ ~req[p].dialog.is_locked
       /\ req[p].dialog.locked_until = None
       /\ req[p].dialog.assigned_admin_id = None
       /\ req[p].sent = 1

\* C14: an operator message posted to a closed dialog is rejected and
\* changes nothing; posted to an open dialog it persists one message with
\* sender = operator, sets status WAIT_USER and unread count 0, and
\* dispatches one outbound send of the text through the sender registered
\* for the dialog's channel type.
C14_OperatorMessage ==
  \A p \in Procs :
    (req[p].op = "operator_message" /\ req[p].pc = "done")
    => IF req[p].loaded.closed
       THEN /\ req[p].outcome = "http_400"
            /\ req[p].bot_message = 0
            /\ dialogs[req[p].loaded.id] = req[p].loaded
       ELSE /\ req[p].outcome = "created"
            /\ req[p].bot_message \in 1..Len(messages)
            /\ messages[req[p].bot_message] =
                 DialogMessage(req[p].dialog.id, OPERATOR, OperatorText, FALSE)
            /\ req[p].dialog.status = WAIT_USER
            /\ req[p].dialog.unread_messages_count = 0
            /\ req[p].sent = 1
            /\ \E i \in 1..Len(sends) :
                 sends[i] = [sender |-> _sender_registry[req[p].channel_type],
                             external_chat_id |-> req[p].external_chat_id,
                             text |-> OperatorText]

\* C15: whatever the provider call ends in (success, HTTP error status,
\* transport error, unexpected error), send_text of every registered sender
\* returns normally, and process_incoming_message is never aborted by a
\* send after the bot message was committed.
C15_SendersNeverRaise ==
  snd.pc = "done" => /\ snd.result = "returned"
                     /\ snd.orchestrator # "aborted"

SendIndexes(trace) == {i \in 1..Len(trace) : trace[i].event = "send"}

RefreshIndexes(trace) == {i \in 1..Len(trace) : trace[i].event = "refresh"}

Min(S) == CHOOSE x \in S : \A y \in S : x <= y

AvitoCallDone == snd.pc = "done" /\ snd.in.sender = "AvitoSender"

\* The token rules that do not depend on how the retry is decided: the
\* cached token goes into the first send without a refresh only if it
\* expires later than now plus the margin, otherwise a refresh precedes the
\* first send; a second send uses the token of a refresh made after the
\* first response; there is no third send.
TokenRules(trace) ==
  LET S == SendIndexes(trace)
      R == RefreshIndexes(trace)
      first == Min(S)
      second == Max(S)
  IN S # {} =>
       /\ trace[first].token # NoToken
       /\ (trace[first].token = CachedToken /\ ~\E r \in R : r < first)
            => snd.in.expires_at > snd.in.now + TOKEN_REFRESH_MARGIN_SECONDS
       /\ ~(/\ snd.in.access_token
            /\ snd.in.expires_at # None
            /\ snd.in.expires_at > snd.in.now + TOKEN_REFRESH_MARGIN_SECONDS)
            => \E r \in R : r < first /\ trace[r].token = trace[first].token
       /\ Cardinality(S) >= 2
            => \E r \in R : /\ first + 1 < r /\ r < second
                            /\ trace[r].token = trace[second].token
                            /\ trace[second].token # NoToken
       /\ Cardinality(S) <= 2

FirstResponseUnauthorized(trace) ==
  LET first == Min(SendIndexes(trace))
  IN /\ trace[first + 1].event = "outcome"
     /\ trace[first + 1].outcome.raised = "none"
     /\ trace[first + 1].outcome.status_code \in {401, 403}

C17_OneRecordPerSendRequest ==
  snd.pc = "done" =>
    /\ Len(snd.records) = Cardinality(SendIndexes(snd.trace))
    /\ \A i \in 1..Len(snd.records) : snd.records[i].direction = "out"

NoProcessing ==
  /\ hook.persisted = <<>>
  /\ ~hook.dialog_written
  /\ hook.sent = 0
  /\ hook.made = 0
  /\ \A c \in Connections : ws[c].inbox = <<>>

SecretIsWrong ==
  hook.in.expected_secret # hook.in.provided_secret

\* C19: a webhook request with the correct shared secret is always
\* acknowledged with success; a non-success response is produced only when
\* the secret is wrong.
C19_CorrectSecretAlwaysAcknowledged ==
  hook.pc = "done" => (hook.response # 200 => SecretIsWrong)

Rank(e) ==
  IF e.event = "dialog_created" THEN 0
  ELSE IF e.event = "message_created" THEN 2 * e.message - 1
  ELSE 2 * e.message

\* The events _broadcast_message_events sends to one connection that stays
\* connected.
Expected ==
  (IF hook.dialog_created THEN <<Event("dialog_created", 0)>> ELSE <<>>)
  \o [i \in 1..(2 * Len(hook.persisted)) |->
        IF i % 2 = 1 THEN Event("message_created", (i + 1) \div 2)
        ELSE Event("dialog_updated", i \div 2)]

Delivered == {w \in Sockets : sock[w].received > 0}

\* C21: a broadcast to admins with admin ids given reaches only sockets
\* registered under those ids, without ids every registered admin socket,
\* and a broadcast to a webchat session only sockets registered under
\* exactly its key; so an event for a dialog assigned to one admin never
\* reaches a socket of another admin.
C21_DeliveryFollowsTargets ==
  /\ \A w \in Delivered :
       /\ sock[w].home \in TargetKeys(cast.call)
       /\ cast.call.kind = "admins" /\ cast.call.given
            => \E a \in cast.call.admin_ids : sock[w].home = AdminKey(a)
       /\ cast.call.kind = "webchat" => sock[w].home = cast.call.key
  /\ (cast.pc = "done" /\ ~cast.raised) => cast.stayed \subseteq Delivered

\* A broadcast for admin 1 that reached the socket of admin 1 and not the
\* connected socket of admin 2.
C21_Witness ==
  /\ cast.pc = "done" /\ ~cast.raised
  /\ cast.call.kind = "admins" /\ cast.call.given /\ cast.call.admin_ids = {1}
  /\ \E w, v \in Sockets :
       /\ sock[w].home = AdminKey(1) /\ sock[w].received = 1
       /\ sock[v].home = AdminKey(2) /\ sock[v].state = "connected"
       /\ v \in registry[AdminKey(2)] /\ sock[v].received = 0

\* C22: in a broadcast during which nobody else changed the visited sets,
\* a socket found not connected or whose write failed is removed from the
\* registry, every other connected target socket receives the event, and
\* the broadcast does not raise.
C22_FailedWritePruned ==
  (cast.pc = "done" /\ ~cast.interfered)
    => /\ ~cast.raised
       /\ \A w \in cast.dead : w \notin registry[sock[w].home]
       /\ \A w \in cast.stayed : sock[w].received = 1

\* A broadcast in which one socket of a key was pruned after a failed
\* write or a lost connection and another socket of the same key received
\* the event.
C22_Witness ==
  /\ cast.pc = "done" /\ ~cast.interfered
  /\ \E w, v \in Sockets :
       /\ w # v /\ sock[w].home = sock[v].home
       /\ w \in cast.dead /\ w \notin registry[sock[w].home]
       /\ sock[w].received = 0
       /\ sock[v].received = 1 /\ v \in registry[sock[v].home]

\* C27: a register or unregister that interleaves with a broadcast over
\* the same key never makes the broadcast fail, and every socket that
\* stays registered and connected for the whole broadcast receives the
\* event exactly once.
C27_RegistryChangeDuringBroadcast ==
  cast.pc = "done"
    => /\ ~cast.raised
       /\ \A w \in cast.stayed : sock[w].received = 1

\* C23: a dialog created by process_incoming_message is never visible
\* without the user message that caused it: as long as the creating request
\* has not finished its user-message step, the stored dialog already has a
\* message.
C23_CreatedDialogHasUserMessage ==
  \A p \in Procs :
    req[p].op = "incoming" /\ req[p].dialog_created /\ req[p].pc = "pi_found"
      => DialogMessageIds(req[p].dialog.id) # {}

\* C28: while only user messages have been stored, the unread counter of
\* every dialog equals the number of its user messages.
C28_UnreadCountsEveryUserMessage ==
  (\A i \in 1..Len(messages) : messages[i].sender = USER)
    => \A d \in 1..Len(dialogs) :
         dialogs[d].unread_messages_count = Cardinality(DialogMessageIds(d))

\* C29: closed is terminal: no step sets the closed flag of a closed dialog
\* back to false, and no step stores a message for a closed dialog.
C29_ClosedIsTerminal ==
  [][\A d \in 1..Len(dialogs) :
       dialogs[d].closed
         => /\ dialogs'[d].closed
            /\ {i \in 1..Len(messages') : messages'[i].dialog_id = d}
                 = DialogMessageIds(d)]_vars

\* C30: a message accepted by the operator send-message endpoint for
\* dialog D is stored with dialog_id = D, and the request creates no dialog.
C30_OperatorMessageStaysInDialog ==
  \A p \in Procs :
    req[p].op = "operator_message" /\ req[p].outcome = "created"
      => /\ messages[req[p].bot_message].dialog_id = req[p].loaded.id
         /\ ~req[p].dialog_created

\* C24: the CRM sync never affects the main flow: the call to the
\* auto-answer pipeline is possible whatever the task is doing, and what
\* process_incoming_message returns is determined by the operator-lock guard
\* and the answer alone, however the sync ends.
C24_SyncNeverAffectsMainFlow ==
  /\ crm.pc = "answer" => ENABLED Main_Answer
  /\ crm.pc = "done" => crm.result = MainResult(crm.locked, crm.ai)

C24_Witness ==
  /\ crm.pc = "done" /\ crm.result = "answered"
  /\ crm.task_at_answer = "running"
  /\ crm.task = "finished" /\ crm.task_end = "TimeoutError"

\* C25: an Avito update the normalizer accepts is marked skip_processing
\* with reason "system_message" when its type is "system", and with reason
\* "outgoing_message" when its direction is "out" and its type is not
\* "system"; the webhook does not hand a message marked skip_processing to
\* process_incoming_message.
C25_OutgoingAndSystemSkipped ==
  norm.in.channel = "avito" /\ norm.out.raised = "none"
    => /\ norm.in.type = "system"
            => norm.out.skip_processing /\ norm.out.skip_reason = "system_message"
       /\ norm.in.direction = "out" /\ norm.in.type # "system"
            => norm.out.skip_processing /\ norm.out.skip_reason = "outgoing_message"
       /\ norm.out.skip_processing => ~norm.processed /\ norm.branch # "received"

C25_Witness ==
  /\ norm.pc = "done" /\ norm.in.channel = "avito" /\ norm.out.raised = "none"
  /\ norm.in.direction = "out" /\ norm.in.type = "system"
  /\ norm.out.skip_reason = "system_message" /\ norm.branch = "skipped"

\* C26: a channel normalizer never raises for a JSON-object body, whatever
\* kind of value its nested keys hold; a missing field comes out as the
\* empty string.
C26_NormalizerNeverRaises ==
  norm.pc # "idle"
    => /\ norm.out.raised = "none"
       /\ norm.in.text \in {"missing", "null"} => norm.out.text = ""

====
